---- MODULE Spec2Model ----
(***************************************************************************)
(* A model of inline-resources.js: the configuration reader readTsconfig,  *)
(* the three text passes inlineTemplate, inlineStyle and removeModuleId,   *)
(* their composition inlineResourcesFromString, and the per-file promise   *)
(* chains that inlineResources starts and joins with Promise.all.          *)
(*                                                                         *)
(* Text is a sequence of tokens.  A token is a character (" ", a line      *)
(* break, a quote, ...) or a literal the regular expressions of the source *)
(* spell out in full ("templateUrl:", ".html", "styleUrls:", "moduleId:",  *)
(* "module.id"); every other token is an opaque run of characters.  A path *)
(* is a sequence of segments and a segment is a sequence of tokens, so     *)
(* that "x" followed by ".html" is the file name x.html.                   *)
(*                                                                         *)
(* A value that a definition uses more than once is bound by               *)
(* CHOOSE v \in {... : name \in {value}} : TRUE, the one element of a      *)
(* singleton set, so that it is computed once.                             *)
(***************************************************************************)
EXTENDS Naturals, Sequences, FiniteSets

VARIABLES
    \* ---- calls of the text passes on their own (SpecText) ----
    src,        \* the source text of the call, as parts (literal tokens and declarations)
    files,      \* the resource files the resolver of the call can reach: path -> text
    called,     \* which function was applied: "none" before the call
    out,        \* what the call returned: [ok, text], ok = FALSE when it threw
    \* ---- one process running inlineResources (Spec, SpecLib) ----
    disk,       \* the configuration documents on disk: path -> document or Missing
    cache,      \* require's module cache: path -> loaded (and mutated) object or NotLoaded
    fs,         \* the files on disk: path -> text
    phase,      \* "idle", "running", "fulfilled", "threw"
    arg,        \* the tsconfigPath of the current call
    conf,       \* the rootDir and outDir the current call resolved
    units,      \* the promise chain of each compiled file of the current call
    log,        \* the files whose chain ended in the catch handler (console.error)
    hist,       \* what the process did: loads from disk, reads and writes of files
    calls,      \* how many times inlineResources was called
    edits       \* how many times a configuration document was changed on disk

textVars == <<src, files, called, out>>
procVars == <<disk, cache, fs, phase, arg, conf, units, log, hist, calls, edits>>
vars == <<src, files, called, out, disk, cache, fs, phase, arg, conf, units, log, hist, calls, edits>>

----------------------------------------------------------------------------
(* Tokens *)

SP == " "
NL == "\n"
CR == "\r"
DQ == "\""
SQ == "'"
BS == "\\"
COMMA == ","
LB == "["
RB == "]"
SLASH == "/"
DOTDOT == ".."
DOT == "."
KwTemplateUrl == "templateUrl:"
ExtHtml == ".html"
KwStyleUrls == "styleUrls:"
KwModuleId == "moduleId:"
ModuleDotId == "module.id"
KwTemplate == "template:"
KwStyles == "styles:"
ExtJs == ".js"

\* \s of the regular expressions, and [\n\r]
WhiteSpace == {SP, NL, CR}
LineBreak == {NL, CR}

\* the value of a call that returned text, and of a call that threw; reads are the
\* files the call had read by then
Ok(text) == [ok |-> TRUE, text |-> text, reads |-> {}]
Throw == [ok |-> FALSE, text |-> <<>>, reads |-> {}]

\* a result in front of the rest of a replacement that may have thrown
Cat(pre, rest) ==
    CHOOSE c \in {[ok |-> r.ok, text |-> IF r.ok THEN p.text \o r.text ELSE <<>>,
                   reads |-> p.reads \cup r.reads] : p \in {pre}, r \in {rest}} : TRUE

\* the end of a greedy \s* that starts at i: the first index at or after i that
\* holds no white space (Len(s) + 1 when the text ends first)
SkipWS(s, i) ==
    CHOOSE j \in i..(Len(s) + 1) :
        /\ \A k \in i..(j - 1) : s[k] \in WhiteSpace
        /\ (j = Len(s) + 1 \/ s[j] \notin WhiteSpace)

\* the concatenation of a sequence of sequences
Flatten(ss) ==
    CHOOSE v \in
        {LET upTo[k \in 0..Len(s)] == IF k = 0 THEN <<>> ELSE upTo[k - 1] \o s[k]
         IN  upTo[Len(s)] : s \in {ss}} : TRUE

----------------------------------------------------------------------------
(* Paths *)

\* the first segment of an absolute path
Root == <<SLASH>>

\* a segment after a normalized path: "." and the empty segment add nothing, ".."
\* takes the segment before it (and nothing at the root)
Push(norm, seg) ==
    CHOOSE n \in
        {IF seg = <<>> \/ seg = <<DOT>> THEN init
         ELSE IF seg = <<DOTDOT>>
              THEN (IF Len(init) <= 1 THEN init ELSE SubSeq(init, 1, Len(init) - 1))
              ELSE Append(init, seg) :
         init \in {norm}} : TRUE

\* the normal form path.resolve and path.join give an absolute path
Normalize(p) ==
    CHOOSE v \in
        {LET upTo[k \in 0..Len(q)] == IF k = 0 THEN <<>> ELSE Push(upTo[k - 1], q[k])
         IN  upTo[Len(q)] : q \in {p}} : TRUE

\* path.resolve(dir, p): p itself when it is absolute, else p from dir
Resolve(dir, p) == IF p # <<>> /\ p[1] = Root THEN Normalize(p) ELSE Normalize(dir \o p)

Dirname(p) == SubSeq(p, 1, Len(p) - 1)

IsPrefix(d, p) == Len(d) <= Len(p) /\ SubSeq(p, 1, Len(d)) = d

\* a URL as path segments: the tokens between its slashes
SplitUrl(url) ==
    CHOOSE v \in
        {LET from[i \in 1..(Len(u) + 1)] ==
                 IF \A k \in i..Len(u) : u[k] # SLASH THEN <<SubSeq(u, i, Len(u))>>
                 ELSE LET k == CHOOSE k \in i..Len(u) :
                                   u[k] = SLASH /\ \A h \in i..(k - 1) : u[h] # SLASH
                      IN  <<SubSeq(u, i, k - 1)>> \o from[k + 1]
         IN  from[1] : u \in {url}} : TRUE

Undefined == <<<<"undefined">>>>

\* path.relative(outDir, dir) for a dir at or under outDir
Relative(outDir, dir) == SubSeq(dir, Len(outDir) + 1, Len(dir))

\* the resolver inlineResources gives each file: the path of a URL, or Throw when
\* rootDir is undefined (path.join throws a TypeError)
UrlResolver(rootDir, outDir, filePath, url) ==
    IF rootDir = Undefined THEN [ok |-> FALSE, path |-> <<>>]
    ELSE [ok |-> TRUE, path |-> Normalize(rootDir \o Relative(outDir, Dirname(filePath)) \o SplitUrl(url))]

\* fs.readFileSync(path, 'utf-8'): the text of the file, or Throw (ENOENT)
ReadFileSync(fsys, p) ==
    IF p \in DOMAIN fsys THEN [ok |-> TRUE, text |-> fsys[p], reads |-> {p}] ELSE Throw

\* the resolver applied to a URL, then the file read
ReadResource(fsys, rv, url) ==
    CHOOSE v \in
        {IF p.ok THEN ReadFileSync(fsys, p.path) ELSE Throw :
            p \in {UrlResolver(rv.rootDir, rv.outDir, rv.filePath, url)}} : TRUE

----------------------------------------------------------------------------
(* The text passes *)

\* .replace(/([\n\r]\s*)+/gm, ' '): a line break and the white space after it
\* become one space
Collapse(text) ==
    CHOOSE v \in
        {LET from[i \in 1..(Len(s) + 1)] ==
                 IF i > Len(s) THEN <<>>
                 ELSE IF s[i] \in LineBreak THEN <<SP>> \o from[SkipWS(s, i + 1)]
                 ELSE <<s[i]>> \o from[i + 1]
         IN  from[1] : s \in {text}} : TRUE

\* .replace(/"/g, '\\"')
EscapeQuotes(text) ==
    CHOOSE v \in
        {Flatten([k \in 1..Len(s) |-> IF s[k] = DQ THEN <<BS, DQ>> ELSE <<s[k]>>]) :
            s \in {text}} : TRUE

Shorten(text) == EscapeQuotes(Collapse(text))

NoMatch == [found |-> FALSE, next |-> 0, cap |-> <<>>]

\* /templateUrl:\s*'([^']+?\.html)'/ at i: where the match ends and what it captured
TemplateMatch(s, i) ==
    IF s[i] # KwTemplateUrl THEN NoMatch
    ELSE LET q == SkipWS(s, i + 1)
             ends == {e \in (q + 2)..(Len(s) - 1) :
                         /\ s[e] = ExtHtml
                         /\ s[e + 1] = SQ
                         /\ \A k \in (q + 1)..(e - 1) : s[k] # SQ}
         IN  IF q > Len(s) \/ s[q] # SQ \/ ends = {} THEN NoMatch
             ELSE LET e == CHOOSE e \in ends : \A f \in ends : e <= f
                  IN  [found |-> TRUE, next |-> e + 2, cap |-> SubSeq(s, q + 1, e)]

\* the replacement function of inlineTemplate
TemplateReplacement(fsys, rv, templateUrl) ==
    CHOOSE v \in
        {IF templateContent.ok
         THEN [templateContent EXCEPT
                  !.text = <<KwTemplate, SP, DQ>> \o Shorten(templateContent.text) \o <<DQ>>]
         ELSE Throw :
            templateContent \in {ReadResource(fsys, rv, templateUrl)}} : TRUE

\* content.replace(/templateUrl:.../gm, ...): every match from left to right, the
\* text between the matches kept; a replacement that throws ends the call
InlineTemplate(content, fsys, rv) ==
    LET from[i \in 1..(Len(content) + 1)] ==
            IF i > Len(content) THEN Ok(<<>>)
            ELSE LET m == TemplateMatch(content, i)
                 IN  IF m.found
                     THEN LET r == TemplateReplacement(fsys, rv, m.cap)
                          IN  IF r.ok THEN Cat(r, from[m.next]) ELSE Throw
                     ELSE Cat(Ok(<<content[i]>>), from[i + 1])
    IN  from[1]

\* /styleUrls:\s*(\[[\s\S]*?\])/ at i: the capture is what stands between the
\* brackets
StyleMatch(s, i) ==
    IF s[i] # KwStyleUrls THEN NoMatch
    ELSE LET q == SkipWS(s, i + 1)
             ends == {e \in (q + 1)..Len(s) : s[e] = RB}
         IN  IF q > Len(s) \/ s[q] # LB \/ ends = {} THEN NoMatch
             ELSE LET e == CHOOSE e \in ends : \A f \in ends : e <= f
                  IN  [found |-> TRUE, next |-> e + 1, cap |-> SubSeq(s, q + 1, e - 1)]

NoString == [found |-> FALSE, next |-> 0, chars |-> <<"!">>]

\* a string literal opened by quote q, from its first character at i0
ScanString(s, i0, q) ==
    LET from[i \in 1..(Len(s) + 2)] ==
            IF i > Len(s) \/ s[i] \in LineBreak THEN NoString
            ELSE IF s[i] = q THEN [found |-> TRUE, next |-> i + 1, chars |-> <<>>]
            ELSE IF s[i] = BS
                 THEN (IF i + 1 > Len(s) THEN NoString
                       ELSE [from[i + 2] EXCEPT
                                !.chars = IF @ = <<"!">> THEN @ ELSE <<s[i + 1]>> \o @])
                 ELSE [from[i + 1] EXCEPT
                          !.chars = IF @ = <<"!">> THEN @ ELSE <<s[i]>> \o @]
    IN  from[i0]

Hole == [hole |-> TRUE, url |-> <<>>]
Element(url) == [hole |-> FALSE, url |-> url]
Elements(list) == [ok |-> TRUE, list |-> list]
EvalThrow == [ok |-> FALSE, list |-> <<>>]

\* an element in front of the elements after it, when those evaluate
Cons(el, rest) ==
    CHOOSE c \in {IF r.ok THEN Elements(<<el>> \o r.list) ELSE r : r \in {rest}} : TRUE

\* eval of an array literal of string literals, element after element: a comma
\* with nothing before it is a hole, a comma at the end adds nothing, anything
\* that is no string literal throws
EvalArray(inner) ==
    LET from[i \in 1..(Len(inner) + 1)] ==
            LET j == SkipWS(inner, i)
            IN  IF j > Len(inner) THEN Elements(<<>>)
                ELSE IF inner[j] = COMMA THEN Cons(Hole, from[j + 1])
                ELSE IF inner[j] \in {SQ, DQ}
                     THEN LET str == ScanString(inner, j + 1, inner[j])
                              k == SkipWS(inner, str.next)
                          IN  IF ~str.found THEN EvalThrow
                              ELSE IF k > Len(inner) THEN Elements(<<Element(str.chars)>>)
                              ELSE IF inner[k] = COMMA
                                   THEN Cons(Element(str.chars), from[k + 1])
                              ELSE EvalThrow
                ELSE EvalThrow
    IN  from[1]

\* urls.map(styleUrl => ...): one quoted string per URL (a hole stays a hole)
StyleString(fsys, rv, el) ==
    IF el.hole THEN Ok(<<>>)
    ELSE CHOOSE v \in
             {IF styleContent.ok
              THEN [styleContent EXCEPT
                       !.text = <<DQ>> \o Shorten(styleContent.text) \o <<DQ>>]
              ELSE Throw :
                 styleContent \in {ReadResource(fsys, rv, el.url)}} : TRUE

\* urls.map(...) as one result: the strings when each URL could be read, and a
\* throw at the first that could not
MapStyles(fsys, rv, urls) ==
    CHOOSE v \in
        {LET bad == {k \in 1..Len(strs) : ~strs[k].ok}
             before == {k \in 1..Len(strs) : \A b \in bad : k < b}
         IN  [ok |-> bad = {},
              list |-> IF bad = {} THEN [k \in 1..Len(strs) |-> strs[k].text] ELSE <<>>,
              reads |-> UNION {strs[k].reads : k \in before}] :
            strs \in {[k \in 1..Len(urls) |-> StyleString(fsys, rv, urls[k])]}} : TRUE

\* .join(',\n')
JoinStrings(strs) ==
    LET upTo[k \in 0..Len(strs)] ==
            IF k = 0 THEN <<>>
            ELSE IF k = 1 THEN strs[1]
            ELSE upTo[k - 1] \o <<COMMA, NL>> \o strs[k]
    IN  upTo[Len(strs)]

\* a URL that could not be read: the replacement throws, the files before it read
StyleThrow(mapped) == [ok |-> FALSE, text |-> <<>>, reads |-> mapped.reads]

\* the replacement function of inlineStyle with .join(',') for .join(',\n')
StyleReplacementCommaOnly(fsys, rv, styleUrls) ==
    CHOOSE v \in
        {IF ~urls.ok THEN Throw
         ELSE CHOOSE w \in
                  {IF ~mapped.ok THEN StyleThrow(mapped)
                   ELSE [ok |-> TRUE,
                         text |-> <<KwStyles, SP, LB>>
                                  \o Flatten([k \in 1..Len(mapped.list) |->
                                         (IF k > 1 THEN <<COMMA>> ELSE <<>>)
                                         \o mapped.list[k]])
                                  \o <<RB>>,
                         reads |-> mapped.reads] :
                      mapped \in {MapStyles(fsys, rv, urls.list)}} : TRUE :
            urls \in {EvalArray(styleUrls)}} : TRUE

\* the replacement function of inlineStyle
StyleReplacement(fsys, rv, styleUrls) ==
    CHOOSE v \in
        {IF ~urls.ok THEN Throw
         ELSE CHOOSE w \in
                  {IF ~mapped.ok THEN StyleThrow(mapped)
                   ELSE [ok |-> TRUE,
                         text |-> <<KwStyles, SP, LB>> \o JoinStrings(mapped.list) \o <<RB>>,
                         reads |-> mapped.reads] :
                      mapped \in {MapStyles(fsys, rv, urls.list)}} : TRUE :
            urls \in {EvalArray(styleUrls)}} : TRUE

\* content.replace(/styleUrls:.../gm, ...): every match from left to right; a
\* replacement that throws ends the call
InlineStyle(content, fsys, rv) ==
    LET from[i \in 1..(Len(content) + 1)] ==
            IF i > Len(content) THEN Ok(<<>>)
            ELSE LET m == StyleMatch(content, i)
                 IN  IF m.found
                     THEN LET r == StyleReplacement(fsys, rv, m.cap)
                          IN  IF r.ok THEN Cat(r, from[m.next]) ELSE r
                     ELSE Cat(Ok(<<content[i]>>), from[i + 1])
    IN  from[1]

\* /\s*moduleId:\s*module\.id\s*,?\s*/ at i
ModuleIdMatch(s, i) ==
    LET a == SkipWS(s, i)
    IN  IF a > Len(s) \/ s[a] # KwModuleId THEN NoMatch
        ELSE LET b == SkipWS(s, a + 1)
             IN  IF b > Len(s) \/ s[b] # ModuleDotId THEN NoMatch
                 ELSE LET c == SkipWS(s, b + 1)
                          d == IF c <= Len(s) /\ s[c] = COMMA THEN SkipWS(s, c + 1) ELSE c
                      IN  [found |-> TRUE, next |-> d, cap |-> <<>>]

\* content.replace(/\s*moduleId:\s*module\.id\s*,?\s*/gm, ''): one pass from left
\* to right, every match left out
RemoveModuleId(content) ==
    LET from[i \in 1..(Len(content) + 1)] ==
            IF i > Len(content) THEN <<>>
            ELSE LET m == ModuleIdMatch(content, i)
                 IN  IF m.found THEN from[m.next]
                     ELSE <<content[i]>> \o from[i + 1]
    IN  from[1]

\* [inlineTemplate, inlineStyle, removeModuleId].reduce(...)
InlineResourcesFromString(content, fsys, rv) ==
    CHOOSE c \in
        {IF b.ok THEN [b EXCEPT !.text = RemoveModuleId(b.text)] ELSE b :
            b \in {IF a.ok THEN Cat([a EXCEPT !.text = <<>>], InlineStyle(a.text, fsys, rv))
                   ELSE a :
                   a \in {InlineTemplate(content, fsys, rv)}}} : TRUE

----------------------------------------------------------------------------
(* Calls of the text passes on their own: SpecText *)

MaxParts == 3
MaxStyleParts == 2
MaxUrls == 2
MaxFile == 3
MaxLen == 4

SeqUpTo(S, n) == UNION {[1..k -> S] : k \in 0..n}

\* A part of a source text: a literal token, a templateUrl declaration or a
\* styleUrls declaration, with ws spaces where the expressions allow \s*
Lit(t) == [kind |-> "lit", tok |-> t, ws |-> 0, urls |-> <<>>]
TemplateDecl(ws, url) == [kind |-> "templateUrl", tok |-> "", ws |-> ws, urls |-> <<url>>]
StyleDecl(ws, urls) == [kind |-> "styleUrls", tok |-> "", ws |-> ws, urls |-> urls]

Spaces(n) == [k \in 1..n |-> SP]

\* the text of a part, as it stands in a compiled file
Render(part) ==
    IF part.kind = "lit" THEN <<part.tok>>
    ELSE IF part.kind = "templateUrl"
         THEN <<KwTemplateUrl>> \o Spaces(part.ws) \o <<SQ>> \o part.urls[1] \o <<SQ>>
    ELSE <<KwStyleUrls>> \o Spaces(part.ws) \o <<LB>>
         \o Flatten([k \in 1..Len(part.urls) |->
                (IF k > 1 THEN <<COMMA>> \o Spaces(part.ws) ELSE <<>>)
                \o <<SQ>> \o part.urls[k] \o <<SQ>>])
         \o <<RB>>

RenderAll(parts) == Flatten([k \in 1..Len(parts) |-> Render(parts[k])])

Content == RenderAll(src)

XHtml == <<"x", ExtHtml>>
YHtml == <<"y", ExtHtml>>
ACss == <<"a.css">>
BCss == <<"b.css">>
SrcDir == <<Root, <<"src">>>>
OutDir == <<Root, <<"out">>>>
AJs == <<"a", ExtJs>>
BJs == <<"b", ExtJs>>

\* the resolver of a call on its own: that of the compiled file out/a.js
TextResolver == [rootDir |-> SrcDir, outDir |-> OutDir, filePath |-> OutDir \o <<AJs>>]

ResourcePaths == {SrcDir \o <<u>> : u \in {XHtml, YHtml, ACss, BCss}}

\* x.html is the "<div>\n  Hi\n</div>" of the specification, y.html holds a quote
BaseFiles ==
    [p \in ResourcePaths |->
        IF p = SrcDir \o <<XHtml>> THEN <<"x", NL, SP, SP, "x", NL, "x">>
        ELSE IF p = SrcDir \o <<YHtml>> THEN <<"y", DQ, "y">>
        ELSE IF p = SrcDir \o <<ACss>> THEN <<"a", NL, "a">>
        ELSE <<"b">>]

TemplateParts ==
    {Lit(t) : t \in {"x", SP, SQ, ExtHtml}}
    \cup {TemplateDecl(ws, url) : ws \in 0..1, url \in {XHtml, YHtml}}

StyleParts ==
    {Lit(t) : t \in {"x", SP, LB, RB}}
    \cup {StyleDecl(ws, urls) : ws \in 0..1, urls \in SeqUpTo({ACss, BCss}, MaxUrls)}

ModuleIdParts == {Lit(t) : t \in {KwModuleId, ModuleDotId, SP, COMMA, "x"}}

FileTexts == SeqUpTo({"x", SP, NL, DQ, BS}, MaxFile)

TextInputs ==
    {[src |-> s, files |-> BaseFiles] :
        s \in SeqUpTo(TemplateParts, MaxParts)
              \cup SeqUpTo(StyleParts, MaxStyleParts)
              \cup SeqUpTo(ModuleIdParts, MaxLen)}
    \cup {[src |-> s,
           files |-> [p \in ResourcePaths |->
                        IF p \in {SrcDir \o <<XHtml>>, SrcDir \o <<ACss>>} THEN t
                        ELSE BaseFiles[p]]] :
            s \in {<<TemplateDecl(1, XHtml)>>, <<StyleDecl(1, <<ACss>>)>>},
            t \in FileTexts}

NoConf == [ok |-> FALSE, rootDir |-> Undefined, outDir |-> Undefined]

ProcIdle ==
    /\ disk = <<>>
    /\ cache = <<>>
    /\ fs = <<>>
    /\ phase = "idle"
    /\ arg = <<>>
    /\ conf = NoConf
    /\ units = <<>>
    /\ log = {}
    /\ hist = {}
    /\ calls = 0
    /\ edits = 0

InitText ==
    /\ \E in \in TextInputs : src = in.src /\ files = in.files
    /\ called = "none"
    /\ out = Ok(<<>>)
    /\ ProcIdle

CallInlineTemplate ==
    /\ called = "none"
    /\ called' = "inlineTemplate"
    /\ \E content \in {Content} : out' = InlineTemplate(content, files, TextResolver)
    /\ UNCHANGED <<src, files>>
    /\ UNCHANGED procVars

CallInlineStyle ==
    /\ called = "none"
    /\ called' = "inlineStyle"
    /\ \E content \in {Content} : out' = InlineStyle(content, files, TextResolver)
    /\ UNCHANGED <<src, files>>
    /\ UNCHANGED procVars

CallRemoveModuleId ==
    /\ called = "none"
    /\ called' = "removeModuleId"
    /\ \E content \in {Content} : out' = Ok(RemoveModuleId(content))
    /\ UNCHANGED <<src, files>>
    /\ UNCHANGED procVars

CallInlineResourcesFromString ==
    /\ called = "none"
    /\ called' = "inlineResourcesFromString"
    /\ \E content \in {Content} : out' = InlineResourcesFromString(content, files, TextResolver)
    /\ UNCHANGED <<src, files>>
    /\ UNCHANGED procVars

NextText ==
    \/ CallInlineTemplate
    \/ CallInlineStyle
    \/ CallRemoveModuleId
    \/ CallInlineResourcesFromString

SpecText == InitText /\ [][NextText]_vars

----------------------------------------------------------------------------
(* Configuration: readTsconfig *)

ChildPath == <<Root, <<"lib">>, <<"tsconfig.json">>>>
BasePath == <<Root, <<"base.json">>>>
GonePath == <<Root, <<"gone.json">>>>
ConfigPaths == {ChildPath, BasePath, GonePath}

\* A document on disk: one that loads (state "ok") with what it declares, one that is
\* not there, or one that does not parse
Doc(extends, rootDir, outDir) ==
    [state |-> "ok", extends |-> extends, rootDir |-> rootDir, outDir |-> outDir]
Missing == [state |-> "missing", extends |-> Undefined, rootDir |-> Undefined, outDir |-> Undefined]
Unparseable ==
    [state |-> "unparseable", extends |-> Undefined, rootDir |-> Undefined, outDir |-> Undefined]

\* an entry of require's cache
NotLoaded == [loaded |-> FALSE, json |-> Missing]
Loaded(json) == [loaded |-> TRUE, json |-> json]

\* require(path) with a fallback for a file that does not load
RequireOrDefault(dsk, cch, p) ==
    IF cch[p].loaded THEN [ok |-> TRUE, json |-> cch[p].json, fromDisk |-> FALSE]
    ELSE IF dsk[p].state = "ok" THEN [ok |-> TRUE, json |-> dsk[p], fromDisk |-> TRUE]
    ELSE [ok |-> TRUE, json |-> Doc(Undefined, Undefined, Undefined), fromDisk |-> FALSE]

\* require(path): the object of the module cache when the path was loaded before,
\* else the document read from disk, and a throw when that is missing or does not parse
Require(dsk, cch, p) ==
    IF cch[p].loaded THEN [ok |-> TRUE, json |-> cch[p].json, fromDisk |-> FALSE]
    ELSE IF dsk[p].state = "ok" THEN [ok |-> TRUE, json |-> dsk[p], fromDisk |-> TRUE]
    ELSE [ok |-> FALSE, json |-> Missing, fromDisk |-> FALSE]

\* Object.assign with its arguments in the wrong order: the parent overrides
MergeOptionsParentWins(parentOptions, ownOptions) ==
    [prop \in {"rootDir", "outDir"} |->
        IF parentOptions[prop] # Undefined THEN parentOptions[prop] ELSE ownOptions[prop]]

\* Object.assign({}, parent.compilerOptions, own.compilerOptions)
MergeOptions(parentOptions, ownOptions) ==
    [prop \in {"rootDir", "outDir"} |->
        IF ownOptions[prop] # Undefined THEN ownOptions[prop] ELSE parentOptions[prop]]

Options(json) == [prop \in {"rootDir", "outDir"} |-> json[prop]]

RECURSIVE ReadTsconfig(_, _, _)
\* readTsconfig(tsconfigPath): [ok, json, cache, loads], the cache as the call leaves
\* it and loads the paths it read from disk
ReadTsconfig(tsconfigPath, dsk, cch) ==
    LET tsConfigDir == Dirname(tsconfigPath)
        req == Require(dsk, cch, tsconfigPath)
        tsConfigJson == req.json
        loads == IF req.fromDisk THEN {tsconfigPath} ELSE {}
        cch1 == [cch EXCEPT ![tsconfigPath] = Loaded(tsConfigJson)]
    IN  IF ~req.ok THEN [ok |-> FALSE, json |-> Missing, cache |-> cch, loads |-> {}]
        ELSE LET parent ==
                     IF tsConfigJson.extends # Undefined
                     THEN ReadTsconfig(Resolve(tsConfigDir, tsConfigJson.extends), dsk, cch1)
                     ELSE [ok |-> TRUE, json |-> Doc(Undefined, Undefined, Undefined),
                           cache |-> cch1, loads |-> {}]
                 merged == MergeOptions(Options(parent.json), Options(tsConfigJson))
                 resolved ==
                     [prop \in {"rootDir", "outDir"} |->
                         IF merged[prop] # Undefined THEN Resolve(tsConfigDir, merged[prop])
                         ELSE Undefined]
                 json == Doc(tsConfigJson.extends, resolved["rootDir"], resolved["outDir"])
             IN  IF ~parent.ok
                 THEN [ok |-> FALSE, json |-> Missing, cache |-> parent.cache,
                       loads |-> loads \cup parent.loads]
                 ELSE [ok |-> TRUE, json |-> json,
                       cache |-> [parent.cache EXCEPT ![tsconfigPath] = Loaded(json)],
                       loads |-> loads \cup parent.loads]

----------------------------------------------------------------------------
(* One process: inlineResources and the promise chains it starts *)

MaxCalls == 2
MaxEdits == 1

SubDir == <<"sub">>
NopeHtml == <<"nope", ExtHtml>>
LibDist == <<Root, <<"lib">>, <<"dist">>>>

\* glob.sync(path.join(outDir, '**', '*.js')): the files at or under outDir whose
\* name ends in .js
Glob(fsys, outDir) ==
    {p \in DOMAIN fsys :
        /\ IsPrefix(outDir, p)
        /\ Len(p) > Len(outDir)
        /\ Len(p[Len(p)]) >= 2
        /\ p[Len(p)][Len(p[Len(p)])] = ExtJs}

\* The chain of a file: readFile issued ("reading"), the file read ("loaded"),
\* writeFile issued with the text to write ("writing"), the file opened and
\* truncated ("truncated"), the text written and the chain fulfilled ("done"); or
\* an error caught and logged ("caught"), whose cause is "read", "resource" or
\* "write".  orig is the file's text when the chain started, writes counts the
\* times the chain opened a file for writing.
NewUnit(text) ==
    [st |-> "reading", content |-> <<>>, data |-> <<>>, cause |-> "none",
     orig |-> text, writes |-> 0]

\* a rejection that ends the chains of the other files too
RejectedAbortsAll(us, f, why) ==
    [g \in DOMAIN us |->
        IF g = f THEN [us[g] EXCEPT !.st = "caught", !.cause = why]
        ELSE IF us[g].st \in {"reading", "loaded"} THEN [us[g] EXCEPT !.st = "caught"]
        ELSE us[g]]

\* a catch that stands before the write: the chain goes on and writes nothing
RejectedThenWrites(us, f, why) ==
    [us EXCEPT ![f].st = IF why = "write" THEN "caught" ELSE "writing",
               ![f].data = <<>>, ![f].cause = why]

\* .catch(err => console.error(...)): the chain of f ends, caught and logged
Rejected(us, f, why) == [us EXCEPT ![f].st = "caught", ![f].cause = why]

\* writeFile(filePath, content): the file a chain writes
WriteTarget(filePath) == filePath

Settled(u) == u.st \in {"done", "caught"}

\* the body of inlineResources(tsconfigPath)
Start(p) ==
    \E r \in {ReadTsconfig(p, disk, cache)} :
    LET rootDir == r.json.rootDir
        outDir == r.json.outDir
        found == IF r.ok /\ outDir # Undefined THEN Glob(fs, outDir) ELSE {}
    IN  /\ arg' = p
        /\ calls' = calls + 1
        /\ cache' = r.cache
        /\ conf' = [ok |-> r.ok, rootDir |-> rootDir, outDir |-> outDir]
        /\ phase' = IF r.ok /\ outDir # Undefined THEN "running" ELSE "threw"
        /\ units' = [f \in found |-> NewUnit(fs[f])]
        /\ log' = {}
        /\ hist' = {[unit |-> q, op |-> "load", path |-> q] : q \in r.loads}
        /\ UNCHANGED <<disk, fs, edits>>
        /\ UNCHANGED textVars

\* the first call of the process
Call(p) ==
    /\ phase = "idle"
    /\ Start(p)

\* a later call, made once the one before has ended
CallAgain(p) ==
    /\ phase \in {"fulfilled", "threw"}
    /\ calls < MaxCalls
    /\ Start(p)

\* a configuration document changes on disk between two calls
EditConfig(p, d) ==
    /\ phase \in {"fulfilled", "threw"}
    /\ edits < MaxEdits
    /\ calls < MaxCalls
    /\ d # disk[p]
    /\ disk' = [disk EXCEPT ![p] = d]
    /\ edits' = edits + 1
    /\ UNCHANGED <<cache, fs, phase, arg, conf, units, log, hist, calls>>
    /\ UNCHANGED textVars

\* readFile(filePath, 'utf-8') reads the file
ReadOk(f) ==
    /\ phase = "running"
    /\ units[f].st = "reading"
    /\ units' = [units EXCEPT ![f].st = "loaded", ![f].content = fs[f]]
    /\ hist' = hist \cup {[unit |-> f, op |-> "read", path |-> f]}
    /\ UNCHANGED <<disk, cache, fs, phase, arg, conf, log, calls, edits>>
    /\ UNCHANGED textVars

\* readFile fails: the chain rejects and the catch handler logs
ReadErr(f) ==
    /\ phase = "running"
    /\ units[f].st = "reading"
    /\ units' = Rejected(units, f, "read")
    /\ log' = {g \in DOMAIN units : units'[g].st = "caught"}
    /\ UNCHANGED <<disk, cache, fs, phase, arg, conf, hist, calls, edits>>
    /\ UNCHANGED textVars

\* the callbacks of a read: inlineResourcesFromString with the resolver of the file,
\* reading the resources as it goes, then writeFile issued, or the catch handler
ReadDone(f) ==
    /\ phase = "running"
    /\ units[f].st = "loaded"
    /\ \E r \in {InlineResourcesFromString(units[f].content, fs,
                    [rootDir |-> conf.rootDir, outDir |-> conf.outDir, filePath |-> f])} :
           /\ units' = IF r.ok THEN [units EXCEPT ![f].st = "writing", ![f].data = r.text]
                       ELSE Rejected(units, f, "resource")
           /\ hist' = hist \cup {[unit |-> f, op |-> "resource", path |-> q] : q \in r.reads}
    /\ log' = {g \in DOMAIN units : units'[g].st = "caught"}
    /\ UNCHANGED <<disk, cache, fs, phase, arg, conf, calls, edits>>
    /\ UNCHANGED textVars

\* writeFile opens the file, which truncates it
WriteOpen(f) ==
    /\ phase = "running"
    /\ units[f].st = "writing"
    /\ fs' = [fs EXCEPT ![WriteTarget(f)] = <<>>]
    /\ units' = [units EXCEPT ![f].st = "truncated", ![f].writes = @ + 1]
    /\ hist' = hist \cup {[unit |-> f, op |-> "write", path |-> WriteTarget(f)]}
    /\ UNCHANGED <<disk, cache, phase, arg, conf, log, calls, edits>>
    /\ UNCHANGED textVars

\* writeFile cannot open the file: the chain rejects and the catch handler logs
WriteErr(f) ==
    /\ phase = "running"
    /\ units[f].st = "writing"
    /\ units' = Rejected(units, f, "write")
    /\ log' = {g \in DOMAIN units : units'[g].st = "caught"}
    /\ UNCHANGED <<disk, cache, fs, phase, arg, conf, hist, calls, edits>>
    /\ UNCHANGED textVars

\* writeFile writes the text and the chain is fulfilled
WriteData(f) ==
    /\ phase = "running"
    /\ units[f].st = "truncated"
    /\ fs' = [fs EXCEPT ![WriteTarget(f)] = units[f].data]
    /\ units' = [units EXCEPT ![f].st = "done"]
    /\ UNCHANGED <<disk, cache, phase, arg, conf, log, hist, calls, edits>>
    /\ UNCHANGED textVars

\* Promise.all: rejected as soon as one chain is, fulfilled once all are
Settle ==
    /\ phase = "running"
    /\ \/ \E f \in DOMAIN units : units[f].st = "rejected"
       \/ \A f \in DOMAIN units : Settled(units[f])
    /\ phase' = IF \E f \in DOMAIN units : units[f].st = "rejected" THEN "rejected"
                ELSE "fulfilled"
    /\ UNCHANGED <<disk, cache, fs, arg, conf, units, log, hist, calls, edits>>
    /\ UNCHANGED textVars

\* the text of a source text given as a list of parts
Text(parts) == RenderAll(parts)

CompiledA == OutDir \o <<AJs>>
CompiledB == OutDir \o <<SubDir, BJs>>
CompiledLib == LibDist \o <<AJs>>

\* what out/a.js may hold: a template and the marker; a style sheet that is the
\* compiled file out/sub/b.js; a template that does not exist
AContents ==
    {Text(<<TemplateDecl(1, XHtml), Lit(COMMA), Lit(SP), Lit(KwModuleId), Lit(SP),
            Lit(ModuleDotId)>>),
     Text(<<StyleDecl(0, <<<<DOTDOT, SLASH, "out", SLASH, "sub", SLASH, "b", ExtJs>>>>)>>),
     Text(<<Lit("x"), TemplateDecl(0, NopeHtml)>>)}

\* what out/sub/b.js may hold: a template, found under src/sub; a style sheet one
\* directory up and the marker; plain text
BContents ==
    {Text(<<TemplateDecl(0, XHtml)>>),
     Text(<<StyleDecl(1, <<<<DOTDOT, SLASH, "a.css">>>>), Lit(KwModuleId), Lit(ModuleDotId),
            Lit(COMMA)>>),
     Text(<<Lit("x")>>)}

FilePaths ==
    {CompiledA, CompiledB, CompiledLib,
     SrcDir \o <<XHtml>>, SrcDir \o <<ACss>>, SrcDir \o <<SubDir, XHtml>>}

FileSystems ==
    {[p \in FilePaths |->
        IF p = CompiledA THEN a
        ELSE IF p = CompiledB THEN b
        ELSE IF p = CompiledLib THEN <<KwModuleId, SP, ModuleDotId, COMMA, SP, "x">>
        ELSE IF p = SrcDir \o <<XHtml>> THEN <<"x", NL, SP, SP, "x", NL, "x">>
        ELSE IF p = SrcDir \o <<ACss>> THEN <<"a", DQ, NL, "a">>
        ELSE <<"sub", SP, NL, "x">>] :
     a \in AContents, b \in BContents}

Unloadable == {Missing, Unparseable}

ChildDocs ==
    {Doc(e, r, o) : e \in {Undefined, <<<<DOTDOT>>, <<"base.json">>>>},
                    r \in {Undefined, <<<<"src">>>>},
                    o \in {Undefined, <<<<"dist">>>>}}

BaseDocs ==
    {Doc(e, r, o) : e \in {Undefined, <<<<"gone.json">>>>},
                    r \in {Undefined, <<<<"src">>>>},
                    o \in {Undefined, <<<<"out">>>>}}

Disks ==
    {[p \in ConfigPaths |-> IF p = ChildPath THEN c ELSE IF p = BasePath THEN b ELSE Missing] :
        c \in ChildDocs \cup Unloadable, b \in BaseDocs \cup Unloadable}

TextIdle ==
    /\ src = <<>>
    /\ files = <<>>
    /\ called = "none"
    /\ out = Ok(<<>>)

Init ==
    /\ disk \in Disks
    /\ cache = [p \in ConfigPaths |-> NotLoaded]
    /\ fs \in FileSystems
    /\ phase = "idle"
    /\ arg = <<>>
    /\ conf = NoConf
    /\ units = <<>>
    /\ log = {}
    /\ hist = {}
    /\ calls = 0
    /\ edits = 0
    /\ TextIdle

Next ==
    \/ \E p \in {ChildPath, BasePath} : Call(p)
    \/ \E f \in DOMAIN units : ReadOk(f)
    \/ \E f \in DOMAIN units : ReadErr(f)
    \/ \E f \in DOMAIN units : ReadDone(f)
    \/ \E f \in DOMAIN units : WriteOpen(f)
    \/ \E f \in DOMAIN units : WriteErr(f)
    \/ \E f \in DOMAIN units : WriteData(f)
    \/ Settle

\* a process that calls inlineResources once, as the command line does
Spec == Init /\ [][Next]_vars

\* a process that calls inlineResources again and again (it is the module's export),
\* with configuration documents changing on disk between the calls
LibChildDocs ==
    {Doc(<<<<DOTDOT>>, <<"base.json">>>>, Undefined, o) : o \in {Undefined, <<<<"dist">>>>}}

LibBaseDocs ==
    {Doc(Undefined, r, <<<<"out">>>>) : r \in {Undefined, <<<<"src">>>>}} \cup {Missing}

EditDocs(p) == IF p = ChildPath THEN LibChildDocs ELSE LibBaseDocs

InitLib ==
    /\ disk \in {[p \in ConfigPaths |->
                    IF p = ChildPath THEN c ELSE IF p = BasePath THEN b ELSE Missing] :
                 c \in LibChildDocs, b \in LibBaseDocs}
    /\ cache = [p \in ConfigPaths |-> NotLoaded]
    /\ fs \in {f \in FileSystems : f[CompiledB] = <<"x">>}
    /\ phase = "idle"
    /\ arg = <<>>
    /\ conf = NoConf
    /\ units = <<>>
    /\ log = {}
    /\ hist = {}
    /\ calls = 0
    /\ edits = 0
    /\ TextIdle

NextLib ==
    \/ Next
    \/ \E p \in {ChildPath, BasePath} : CallAgain(p)
    \/ \E p \in {ChildPath, BasePath} : \E d \in EditDocs(p) : EditConfig(p, d)

SpecLib == InitLib /\ [][NextLib]_vars

----------------------------------------------------------------------------
(* What the text passes are to return, stated position by position *)

\* the file a URL of a declaration names: the one of that name under rootDir
FileOf(url) == files[SrcDir \o <<url>>]

\* white space with a line break before it in the same run of white space
Absorbed(t, i) ==
    /\ t[i] \in WhiteSpace
    /\ \E j \in 1..(i - 1) : t[j] \in LineBreak /\ \A k \in j..i : t[k] \in WhiteSpace

\* a line break and the white space after it are one space; white space before
\* the line break stays
BreaksCollapsed(t) ==
    Flatten([i \in 1..Len(t) |->
        IF Absorbed(t, i) THEN <<>>
        ELSE IF t[i] \in LineBreak THEN <<SP>>
        ELSE <<t[i]>>])

\* white space in a run of white space that holds a line break
InBreakRun(t, i) ==
    /\ t[i] \in WhiteSpace
    /\ \E j \in 1..Len(t) :
          /\ t[j] \in LineBreak
          /\ \A k \in (IF i < j THEN i ELSE j)..(IF i < j THEN j ELSE i) : t[k] \in WhiteSpace

\* every run of white space that holds a line break is one space
RunsCollapsed(t) ==
    Flatten([i \in 1..Len(t) |->
        IF ~InBreakRun(t, i) THEN <<t[i]>>
        ELSE IF i = 1 \/ t[i - 1] \notin WhiteSpace THEN <<SP>>
        ELSE <<>>])

\* a backslash in front of every double quote
QuotesEscaped(t) == Flatten([i \in 1..Len(t) |-> IF t[i] = DQ THEN <<BS, DQ>> ELSE <<t[i]>>])

\* the backslashes that end right before position i
BackslashesBefore(t, i) ==
    CHOOSE n \in 0..(i - 1) :
        /\ \A k \in (i - n)..(i - 1) : t[k] = BS
        /\ (n = i - 1 \/ t[i - n - 1] # BS)

\* no double quote of t ends a string literal that holds t: each has an odd
\* number of backslashes in front of it
NoRawQuote(t) == \A i \in 1..Len(t) : t[i] = DQ => BackslashesBefore(t, i) % 2 = 1

Inlined(url) == QuotesEscaped(BreaksCollapsed(FileOf(url)))
InlinedAsSpecified(url) == QuotesEscaped(RunsCollapsed(FileOf(url)))

\* the text with each templateUrl declaration replaced, in order
TemplatesInlinedAsSpecified(parts) ==
    Flatten([k \in 1..Len(parts) |->
        IF parts[k].kind = "templateUrl"
        THEN <<KwTemplate, SP, DQ>> \o InlinedAsSpecified(parts[k].urls[1]) \o <<DQ>>
        ELSE Render(parts[k])])

\* the text with each styleUrls declaration replaced, in order
StylesInlined(parts) ==
    Flatten([k \in 1..Len(parts) |->
        IF parts[k].kind = "styleUrls"
        THEN <<KwStyles, SP, LB>>
             \o Flatten([u \in 1..Len(parts[k].urls) |->
                    (IF u > 1 THEN <<COMMA, NL>> ELSE <<>>)
                    \o <<DQ>> \o Inlined(parts[k].urls[u]) \o <<DQ>>])
             \o <<RB>>
        ELSE Render(parts[k])])

\* moduleId: module.id stands somewhere in t
HasMarker(t) ==
    \E i \in 1..Len(t) : \E j \in (i + 1)..Len(t) :
        /\ t[i] = KwModuleId
        /\ t[j] = ModuleDotId
        /\ \A k \in (i + 1)..(j - 1) : t[k] \in WhiteSpace

----------------------------------------------------------------------------
(* The claims about the text passes, under SpecText *)

\* C5: inlineTemplate replaces every declaration templateUrl: '<path>.html', each once
\* and in order, by template: "<text>", where <text> is the file of <path> with every
\* run of white space that holds a line break made one space and a backslash put
\* before every double quote, so that no double quote of it is left unescaped.
C5_TemplateInlined ==
    called = "inlineTemplate" =>
        /\ out.ok
        /\ out.text = TemplatesInlinedAsSpecified(src)
        /\ (Len(src) = 1 /\ src[1].kind = "templateUrl" /\ out.ok)
              => NoRawQuote(SubSeq(out.text, 4, Len(out.text) - 1))

\* C6: inlineStyle replaces every declaration styleUrls: [u1, ..., un] by
\* styles: [s1,\n...,\nsn], where si is the quoted, normalised file of ui: one string
\* per URL, in the order of the URLs, joined by a comma and a line break, and
\* styles: [] for n = 0.
C6_StylesInlined ==
    called = "inlineStyle" => (out.ok /\ out.text = StylesInlined(src))

\* a call that replaced a declaration of two different URLs, and an empty one
C6_Witness ==
    /\ called = "inlineStyle"
    /\ out.ok
    /\ \E k \in 1..Len(src) :
          /\ src[k].kind = "styleUrls"
          /\ Len(src[k].urls) = 2
          /\ src[k].urls[1] # src[k].urls[2]
    /\ \E k \in 1..Len(src) : src[k].kind = "styleUrls" /\ src[k].urls = <<>>

\* C7: what removeModuleId returns, and so what inlineResourcesFromString returns,
\* holds no occurrence of moduleId: module.id.
C7_NoMarkerLeft ==
    (called \in {"removeModuleId", "inlineResourcesFromString"} /\ out.ok)
        => ~HasMarker(out.text)

----------------------------------------------------------------------------
(* What readTsconfig is to return, read off the documents on disk *)

RECURSIVE ChainOf(_, _)
\* the documents a resolution of p goes through: p, what it extends, and so on, up
\* to the first that does not load
ChainOf(dsk, p) ==
    IF dsk[p].state # "ok" \/ dsk[p].extends = Undefined THEN <<p>>
    ELSE <<p>> \o ChainOf(dsk, Resolve(Dirname(p), dsk[p].extends))

ChainBroken(dsk, p) ==
    LET chain == ChainOf(dsk, p)
    IN  \E k \in 1..Len(chain) : dsk[chain[k]].state # "ok"

\* the value of prop for a resolution of p: that of the nearest document of the chain
\* that declares prop, from the directory of that document
Declared(dsk, p, prop) ==
    LET chain == ChainOf(dsk, p)
        decl == {k \in 1..Len(chain) : dsk[chain[k]][prop] # Undefined}
    IN  IF decl = {} THEN Undefined
        ELSE LET k == CHOOSE k \in decl : \A h \in decl : k <= h
             IN  Normalize(Dirname(chain[k]) \o dsk[chain[k]][prop])

FileOps == {"read", "resource", "write"}

----------------------------------------------------------------------------
(* The claims about inlineResources, under Spec and SpecLib *)

\* what the compiled files may have held when a chain read its resources: each its
\* text of before the run, nothing (opened for writing) or its transformed text
Seen ==
    {[p \in DOMAIN fs |-> IF p \in DOMAIN units THEN v[p] ELSE fs[p]] :
        v \in {w \in [DOMAIN units ->
                         UNION {{units[g].orig, <<>>, units[g].data} : g \in DOMAIN units}] :
                  \A g \in DOMAIN units : w[g] \in {units[g].orig, <<>>, units[g].data}}}

\* C1: when the operation has completed, every compiled file whose own chain met no
\* failure (reading it, reading its resources, writing it) was read, transformed and
\* written back with its transformed text, whatever happened to the other files.
C1_FailureIsolated ==
    phase = "fulfilled" =>
        \A f \in DOMAIN units :
            units[f].cause = "none" =>
                /\ units[f].st = "done"
                /\ units[f].content = units[f].orig
                /\ fs[f] = units[f].data
                /\ \E seen \in Seen :
                      /\ \A p \in DOMAIN fs :
                            ~(\E a \in hist : a.unit = f /\ a.op = "resource" /\ a.path = p)
                                => seen[p] = fs[p]
                      /\ units[f].data =
                             InlineResourcesFromString(units[f].orig, seen,
                                 [rootDir |-> conf.rootDir, outDir |-> conf.outDir,
                                  filePath |-> f]).text

\* a completed run in which one file failed and another was rewritten
C1_Witness ==
    /\ phase = "fulfilled"
    /\ \E f \in DOMAIN units : \E g \in DOMAIN units :
          /\ units[f].st = "caught"
          /\ units[g].st = "done"
          /\ fs[g] # units[g].orig

\* C2: when the configuration passed to inlineResources, or one reached through its
\* extends chain, is missing or does not parse, the call throws (no defaults stand
\* in) and no compiled file is enumerated, read or written.
C2_ConfigFailureFatal ==
    (calls > 0 /\ ChainBroken(disk, arg)) =>
        /\ phase = "threw"
        /\ ~conf.ok
        /\ DOMAIN units = {}
        /\ \A a \in hist : a.op \notin FileOps

\* a call on a child that loads and extends a base that is missing
C2_Witness ==
    /\ calls > 0
    /\ arg = ChildPath
    /\ disk[ChildPath].state = "ok"
    /\ disk[ChildPath].extends # Undefined
    /\ disk[BasePath].state = "missing"
    /\ phase = "threw"

\* C3: once the configuration is resolved the operation is under way or has
\* completed normally, it has not failed; and it has completed only when every chain
\* has ended, written or caught and logged.
C3_JoinAtEnd ==
    /\ conf.ok => phase \in {"running", "fulfilled"}
    /\ phase = "fulfilled" => \A f \in DOMAIN units : Settled(units[f])

\* C4: rootDir and outDir are each the value the nearest configuration of the chain
\* declares, resolved against the directory of the configuration that declares it,
\* and absolute.
C4_NearestDeclarationWins ==
    conf.ok =>
        \A prop \in {"rootDir", "outDir"} :
            /\ conf[prop] = Declared(disk, arg, prop)
            /\ conf[prop] # Undefined => conf[prop][1] = Root

\* the example: the child declares outDir only and extends a base that declares both
C4_Witness ==
    /\ conf.ok
    /\ arg = ChildPath
    /\ disk[ChildPath] = Doc(<<<<DOTDOT>>, <<"base.json">>>>, Undefined, <<<<"dist">>>>)
    /\ disk[BasePath] = Doc(Undefined, <<<<"src">>>>, <<<<"out">>>>)
    /\ conf.rootDir = <<Root, <<"src">>>>
    /\ conf.outDir = <<Root, <<"lib">>, <<"dist">>>>

\* C8: a resolution gives what the documents on disk declare when it is made,
\* whatever an earlier resolution of the same path read.
C8_NoCaching ==
    phase = "running" =>
        \A prop \in {"rootDir", "outDir"} : conf[prop] = Declared(disk, arg, prop)

\* C9: a compiled file is read as a compiled file and written by its own chain only,
\* a chain writes once at most and to its own path only, and no chain writes a file
\* that another chain reads, as a compiled file or as a resource.
C9_OwnFileOnly ==
    /\ \A a \in hist : a.op \in {"read", "write"} => a.path = a.unit
    /\ \A f \in DOMAIN units : units[f].writes <= 1
    /\ \A a \in hist : \A b \in hist :
          (a.op = "write" /\ b.op \in {"read", "resource"} /\ a.path = b.path)
              => a.unit = b.unit

\* C10: a chain that failed reading its file or a resource never opened the file for
\* writing and the file holds what it held; a file that changed was read and fully
\* transformed by its chain first, and holds the transformed text once written.
C10_WriteAfterSuccess ==
    \A f \in DOMAIN units :
        /\ units[f].cause \in {"read", "resource"} =>
              (units[f].writes = 0 /\ fs[f] = units[f].orig)
        /\ fs[f] # units[f].orig =>
              /\ units[f].st \in {"truncated", "done"}
              /\ units[f].content = units[f].orig
              /\ units[f].cause = "none"
              /\ fs[f] \in {<<>>, units[f].data}
              /\ units[f].st = "done" => fs[f] = units[f].data

\* a run in which a chain failed on a resource while another file was rewritten
C10_Witness ==
    \E f \in DOMAIN units : \E g \in DOMAIN units :
        /\ units[f].cause = "resource"
        /\ units[g].st = "done"
        /\ fs[g] # units[g].orig

====
